---- MODULE Spec2Model ----
(***************************************************************************)
(* A model of the torrentz BitTorrent client (src/src/*.rs).               *)
(*                                                                         *)
(*   SpecNew      PieceManager::new over the torrents from_file accepts.   *)
(*   SpecManager  the PieceManager API of manager.rs: new, then any        *)
(*                sequence of mark_block_requested / mark_block_downloaded *)
(*                calls with any arguments.                                *)
(*   Spec         the download loop of main.rs: main's loop over           *)
(*                get_batch, the semaphore, and the spawned session tasks  *)
(*                (select_peer, runtime, drop(permit)), interleaved.       *)
(*   SpecFromFile Torrent::from_file on info dictionaries written in any   *)
(*                key order.                                               *)
(*   SpecWire     the codec of protocol.rs: Message and Handshake encode   *)
(*                and decode, on messages and on raw buffers.              *)
(*   SpecSession  PeerConnection::read_messages reading the frames a peer  *)
(*                sends on an established connection.                      *)
(*   SpecTracker  Tracker::announce on the responses a tracker may give,   *)
(*                with AnnounceResponse::peers.                            *)
(*                                                                         *)
(* An Option<T> of the source is a sequence of length at most one: <<>> is *)
(* None and <<v>> is Some(v).  A Vec is a sequence; element i of a Vec is  *)
(* element i+1 of the sequence.                                            *)
(***************************************************************************)
EXTENDS Integers, Sequences, FiniteSets, TLC

VARIABLES
    \* ---- inputs (main.rs:32, 44) ----
    torrent,      \* the parsed Torrent (torrent.rs:13-36), only the fields the sizes use
    block_size,   \* the block_size argument of PieceManager::new
    \* ---- PieceManager (manager.rs:4-9) ----
    pm_state,     \* "unbuilt" | "built" | "panicked"; "moved" once main took manager.pieces
    manager,      \* the PieceManager value
    corrupt,      \* environment: the (pidx, boff) whose delivered bytes differ from the content
    calls,        \* number of mark_* calls made so far
    hit_complete, \* history: some mark_* call addressed a block of an already complete piece
    \* ---- download loop (main.rs:45-49, 58-89) ----
    pieces,       \* Arc<Mutex<Vec<Piece>>>: the queue get_batch drains
    peers,        \* Arc<Vec<Peer>>: the roster
    sem,          \* permits available in the Semaphore
    forgotten,    \* permits taken out of the Semaphore for good (forget)
    peer_idx,     \* Arc<Mutex<usize>>
    pieces_lock,  \* holder of the pieces mutex: 0 free, -1 main
    idx_lock,     \* holder of the peer_idx mutex: 0 free, t > 0 task t
    main_pc,      \* position of download_loop / main
    batch,        \* main's local `batch`
    main_permit,  \* main holds an acquired permit it has not yet moved into a task
    waited,       \* iterations done of the final `for _ in 0..CONCURRENCY`
    tasks,        \* the spawned tasks, in spawn order
    \* ---- Torrent::from_file (torrent.rs:46-74) ----
    file_pc,        \* "unused" | "read" | "ok" | "err": Torrent::from_file's progress
    source_info,    \* the `info` dictionary as the .torrent file writes it
    info_raw_bytes, \* Option: Torrent::info_raw_bytes once from_file has run
    \* ---- wire codec (protocol.rs) ----
    wire_pc,      \* the codec call to make next
    wire_in,      \* the value handed to an encoder
    wire_buf,     \* the bytes an encoder produced, or the bytes handed to a decoder
    wire_out,     \* what the decoder returned
    \* ---- PeerConnection::read_messages (peer.rs:91-159) ----
    sess_pc,      \* "reading" | "returned_ok" | "returned_err"
    sess_conn,    \* the PeerConnection's choked and available_pieces
    sess_sent,    \* history: the frames the peer sends on the connection, in wire order
    sess_stream,  \* the bytes the peer has sent and the reader has not yet read
    sess_handled, \* history: the messages the match of read_messages was entered with
    \* ---- Tracker::announce (tracker.rs:134-180) ----
    trk_pc,       \* "unused" | "announce" | "done"
    trk_response, \* what the HTTP request to the tracker brings back
    trk_result    \* what announce returned

vars == << torrent, block_size, pm_state, manager, corrupt, calls, hit_complete,
           pieces, peers, sem, forgotten, peer_idx, pieces_lock, idx_lock,
           main_pc, batch, main_permit, waited, tasks,
           file_pc, source_info, info_raw_bytes, wire_pc, wire_in, wire_buf, wire_out,
           sess_pc, sess_conn, sess_sent, sess_stream, sess_handled,
           trk_pc, trk_response, trk_result >>

fromFileVars == << file_pc, source_info, info_raw_bytes >>
wireVars == << wire_pc, wire_in, wire_buf, wire_out >>
sessVars == << sess_pc, sess_conn, sess_sent, sess_stream, sess_handled >>
trackerVars == << trk_pc, trk_response, trk_result >>

\* no announce is under way
TrackerIdle ==
    /\ trk_pc = "unused"
    /\ trk_response = [ kind |-> "none" ]
    /\ trk_result = [ kind |-> "none" ]

\* from_file, the codec and the reader, at rest
ProtoIdle ==
    /\ file_pc = "unused"
    /\ source_info = << >>
    /\ info_raw_bytes = << >>
    /\ wire_pc = "unused"
    /\ wire_in = [ kind |-> "none" ]
    /\ wire_buf = << >>
    /\ wire_out = [ kind |-> "none" ]
    /\ sess_pc = "unused"
    /\ sess_conn = [ choked |-> TRUE, available_pieces |-> {} ]
    /\ sess_sent = << >>
    /\ sess_stream = << >>
    /\ sess_handled = << >>
    /\ TrackerIdle

managerVars == << pm_state, manager, corrupt, calls, hit_complete >>
loopVars == << pieces, peers, sem, forgotten, peer_idx, pieces_lock, idx_lock,
               main_pc, batch, main_permit, waited, tasks >>

----------------------------------------------------------------------------
(* Bounds of the model.                                                    *)

\* largest `piece length` of a torrent
MaxPieceLen == 3
\* largest `length` of a single-file torrent
MaxTotal == 6
\* largest `length` of one entry of `files`
MaxFileLen == 2
\* largest number of 20-byte hashes in `pieces`
MaxCount == 2
\* largest block_size handed to PieceManager::new
MaxBlockSize == 2
\* number of mark_* calls explored after new
MaxCalls == 3
\* largest number of pieces of the torrent the download loop runs on
NumPieces == 5
\* largest roster the tracker returns
NumPeers == 2
\* permits of the semaphore.  main.rs:25 sets CONCURRENCY = 10; the loop is
\* modelled for any value and explored at this one.
CONCURRENCY == 2
\* pieces per batch.  main.rs:26 sets BATCH_SIZE = 20; the loop is modelled
\* for any value and explored at this one.
BATCH_SIZE == 2

----------------------------------------------------------------------------
(* torrent.rs: the sizes of a Torrent.                                     *)

Min(a, b) == IF a <= b THEN a ELSE b

RECURSIVE SumSeq(_)
SumSeq(s) == IF s = << >> THEN 0 ELSE Head(s) + SumSeq(Tail(s))

\* Torrent::files(): the lengths of the FileEntry list (paths do not matter
\* to any size).
files(t) ==
    IF t.files # << >>
    THEN t.files[1]
    ELSE << (IF t.length # << >> THEN t.length[1] ELSE 0) >>

\* Torrent::total_size()
total_size(t) == SumSeq(files(t))

\* Torrent::pieces_count(): t.pieces is the byte length of info.pieces
pieces_count(t) == t.pieces \div 20

\* Torrent::piece_length()
piece_length(t) == t.piece_length

\* The torrents from_file accepts, within the bounds: from_file checks only
\* that the bencoded fields are present and well typed (torrent.rs:46-74);
\* it relates neither `pieces` to the lengths nor bounds `piece length`.
\* Negative integers are left out (they wrap in `as usize`).
FileLists ==
    { << a >> : a \in 0..MaxFileLen } \cup
    { << a, b >> : a \in 0..MaxFileLen, b \in 0..MaxFileLen }

\* `pieces` of k whole hashes, or of 19 bytes (no whole hash)
PiecesLens == { 20 * k : k \in 0..MaxCount } \cup { 19 }

\* single-file (length), multi-file (files), or neither key
Torrents ==
    { [piece_length |-> pl, pieces |-> n, length |-> len.length, files |-> len.files] :
        pl \in 0..MaxPieceLen, n \in PiecesLens,
        len \in { [length |-> << >>, files |-> << >>] }
            \cup { [length |-> << a >>, files |-> << >>] : a \in 0..MaxTotal }
            \cup { [length |-> << >>, files |-> << f >>] : f \in FileLists } }

----------------------------------------------------------------------------
(* manager.rs: PieceManager.                                               *)

\* (0..n).step_by(step), from `off` on
RECURSIVE StepBy(_, _, _)
StepBy(off, n, step) ==
    IF off >= n THEN << >> ELSE << off >> \o StepBy(off + step, n, step)

\* NewBlocks with every block given the full block size
NewBlocksFullLength(piece_size, bs) ==
    LET offs == StepBy(0, piece_size, bs)
    IN  [ k \in 1..Len(offs) |->
            [ offset |-> offs[k], length |-> bs, state |-> "NotRequested" ] ]

\* manager.rs:22-33: the blocks of a piece of piece_size bytes
NewBlocks(piece_size, bs) ==
    LET offs == StepBy(0, piece_size, bs)
    IN  [ k \in 1..Len(offs) |->
            [ offset |-> offs[k],
              length |-> Min(bs, piece_size - offs[k]),
              state  |-> "NotRequested" ] ]

\* manager.rs:16
LastLen(tot, len) == IF tot % len = 0 THEN len ELSE tot % len

\* PieceManager::new panics on `tot % len` with len = 0 and on step_by(0)
\* (which the closure reaches only when there is a piece to build).
NewPanics(t, bs) ==
    \/ piece_length(t) = 0
    \/ pieces_count(t) > 0 /\ bs = 0

\* PieceManager::new
PieceManagerNew(t, bs) ==
    LET len      == piece_length(t)
        tot      == total_size(t)
        cnt      == pieces_count(t)
        last_len == LastLen(tot, len)
    IN  [ pieces |->
            [ j \in 1..cnt |->
                LET i == j - 1
                    piece_size == IF i = cnt - 1 THEN last_len ELSE len
                IN  [ index |-> i, blocks |-> NewBlocks(piece_size, bs) ] ],
          len |-> len,
          last_len |-> last_len,
          block_size |-> bs ]

\* p.blocks.iter_mut().find(|b| b.offset == boff): position of the first
\* block at that offset, 0 for None
FindBlock(blocks, boff) ==
    LET hits == { k \in 1..Len(blocks) : blocks[k].offset = boff }
    IN  IF hits = {} THEN 0 ELSE CHOOSE k \in hits : \A h \in hits : k <= h

\* mark_block_requested without its .filter(NotRequested)
mark_block_requested_unfiltered(m, pidx, boff) ==
    IF pidx \notin 0..(Len(m.pieces) - 1) THEN m
    ELSE LET k == FindBlock(m.pieces[pidx + 1].blocks, boff)
         IN  IF k = 0 THEN m
             ELSE [m EXCEPT !.pieces[pidx + 1].blocks[k].state = "Requested"]

\* PieceManager::mark_block_requested
mark_block_requested(m, pidx, boff) ==
    IF pidx \notin 0..(Len(m.pieces) - 1) THEN m
    ELSE LET k == FindBlock(m.pieces[pidx + 1].blocks, boff)
         IN  IF k = 0 THEN m
             ELSE IF m.pieces[pidx + 1].blocks[k].state # "NotRequested" THEN m
             ELSE [m EXCEPT !.pieces[pidx + 1].blocks[k].state = "Requested"]

\* PieceManager::mark_block_downloaded
mark_block_downloaded(m, pidx, boff) ==
    IF pidx \notin 0..(Len(m.pieces) - 1) THEN m
    ELSE LET k == FindBlock(m.pieces[pidx + 1].blocks, boff)
         IN  IF k = 0 THEN m
             ELSE [m EXCEPT !.pieces[pidx + 1].blocks[k].state = "Downloaded"]

\* the manager has a block at (pidx, boff)
is_piece_block(m, pidx, boff) ==
    /\ pidx \in 0..(Len(m.pieces) - 1)
    /\ FindBlock(m.pieces[pidx + 1].blocks, boff) # 0

\* all blocks of a Piece value are Downloaded (manager.rs:66-70)
AllDownloaded(p) ==
    \A k \in 1..Len(p.blocks) : p.blocks[k].state = "Downloaded"

\* PieceManager::is_piece_complete
is_piece_complete(m, pidx) ==
    IF pidx \in 0..(Len(m.pieces) - 1)
    THEN AllDownloaded(m.pieces[pidx + 1])
    ELSE FALSE

----------------------------------------------------------------------------
(* The PieceManager API driven with arbitrary arguments.                   *)

\* the loop's variables, at rest while the manager is exercised
LoopIdle ==
    /\ pieces = << >>
    /\ peers = << >>
    /\ sem = 0
    /\ forgotten = 0
    /\ peer_idx = 0
    /\ pieces_lock = 0
    /\ idx_lock = 0
    /\ main_pc = "unused"
    /\ batch = << >>
    /\ main_permit = FALSE
    /\ waited = 0
    /\ tasks = << >>

\* the call addresses a block of a piece that is complete before the call
HitsComplete(m, pidx, boff) ==
    is_piece_block(m, pidx, boff) /\ is_piece_complete(m, pidx)

NoManager == [ pieces |-> << >>, len |-> 0, last_len |-> 0, block_size |-> 0 ]

\* the state before PieceManager::new, for one torrent and block size
Unbuilt(t, bs) ==
    /\ torrent = t
    /\ block_size = bs
    /\ pm_state = "unbuilt"
    /\ manager = NoManager
    /\ corrupt = {}
    /\ calls = 0
    /\ hit_complete = FALSE
    /\ LoopIdle
    /\ ProtoIdle

\* PieceManager::new over every torrent and block size of the bounds
InitNew == \E t \in Torrents, bs \in 0..MaxBlockSize : Unbuilt(t, bs)

\* the manager's calls are explored on the single-file torrents
InitManager ==
    \E t \in { u \in Torrents : u.files = << >> /\ u.length # << >> },
       bs \in 0..MaxBlockSize : Unbuilt(t, bs)

\* main.rs:44: PieceManager::new(&torrent, block_size)
New ==
    /\ pm_state = "unbuilt"
    /\ IF NewPanics(torrent, block_size)
       THEN /\ pm_state' = "panicked"
            /\ UNCHANGED manager
       ELSE /\ pm_state' = "built"
            /\ manager' = PieceManagerNew(torrent, block_size)
    /\ UNCHANGED << torrent, block_size, corrupt, calls, hit_complete >>
    /\ UNCHANGED << loopVars, fromFileVars, wireVars, sessVars, trackerVars >>

\* a call manager.mark_block_requested(pidx, boff), any arguments
MarkBlockRequested ==
    /\ pm_state = "built"
    /\ calls < MaxCalls
    /\ \E pidx \in 0..MaxCount, boff \in 0..MaxPieceLen :
          /\ manager' = mark_block_requested(manager, pidx, boff)
          /\ hit_complete' = (hit_complete \/ HitsComplete(manager, pidx, boff))
    /\ calls' = calls + 1
    /\ UNCHANGED << torrent, block_size, pm_state, corrupt >>
    /\ UNCHANGED << loopVars, fromFileVars, wireVars, sessVars, trackerVars >>

\* a call manager.mark_block_downloaded(pidx, boff), any arguments, made for
\* a block whose bytes arrived (Message::Piece, peer.rs:122): `good` says
\* whether those bytes are the content's.  The manager never sees the bytes.
MarkBlockDownloaded ==
    /\ pm_state = "built"
    /\ calls < MaxCalls
    /\ \E pidx \in 0..MaxCount, boff \in 0..MaxPieceLen, good \in BOOLEAN :
          /\ manager' = mark_block_downloaded(manager, pidx, boff)
          /\ hit_complete' = (hit_complete \/ HitsComplete(manager, pidx, boff))
          /\ corrupt' = IF ~is_piece_block(manager, pidx, boff)
                        THEN corrupt
                        ELSE IF good THEN corrupt \ { << pidx, boff >> }
                        ELSE corrupt \cup { << pidx, boff >> }
    /\ calls' = calls + 1
    /\ UNCHANGED << torrent, block_size, pm_state >>
    /\ UNCHANGED << loopVars, fromFileVars, wireVars, sessVars, trackerVars >>

NextManager ==
    \/ New
    \/ MarkBlockRequested
    \/ MarkBlockDownloaded

SpecManager == InitManager /\ [][NextManager]_vars

SpecNew == InitNew /\ [][New]_vars

----------------------------------------------------------------------------
(* Claims about the PieceManager.                                          *)

\* the lengths of a piece's blocks, summed
BlockLengthSum(p) == SumSeq([ k \in 1..Len(p.blocks) |-> p.blocks[k].length ])

\* the manager's piece indices
PieceIndices == 0..(Len(manager.pieces) - 1)

\* C3 (as claimed): a piece is reported complete only when the bytes
\* delivered for its blocks are the content's, i.e. only when the SHA-1 of
\* the assembled piece equals the metainfo hash.
C3_CompleteOnlyIfHashMatches ==
    \A pidx \in PieceIndices :
        is_piece_complete(manager, pidx) =>
            \A k \in 1..Len(manager.pieces[pidx + 1].blocks) :
                << pidx, manager.pieces[pidx + 1].blocks[k].offset >> \notin corrupt

\* C7 (as claimed): a block that is NotRequested is never Downloaded one call
\* later; Downloaded is entered from Requested only.
C7_DownloadedOnlyFromRequested ==
    [][ \A pidx \in PieceIndices :
          \A k \in 1..Len(manager.pieces[pidx + 1].blocks) :
             manager.pieces[pidx + 1].blocks[k].state = "NotRequested"
                => manager'.pieces[pidx + 1].blocks[k].state # "Downloaded" ]_vars

\* C8: once is_piece_complete(p) holds it holds after every further call of
\* mark_block_requested / mark_block_downloaded, whatever the arguments, and
\* every block of p stays as it is (Downloaded, same offset and length).
C8_CompleteNeverRegresses ==
    [][ \A pidx \in PieceIndices :
          is_piece_complete(manager, pidx)
             => /\ is_piece_complete(manager', pidx)
                /\ manager'.pieces[pidx + 1].blocks = manager.pieces[pidx + 1].blocks ]_vars

\* C8 witness: a call addressed a block of a complete piece, and a piece is
\* complete.
C8_Witness ==
    /\ hit_complete
    /\ \E pidx \in PieceIndices : is_piece_complete(manager, pidx)

\* C9: in every piece PieceManager::new builds, block offsets start at 0 and
\* are contiguous and strictly increasing, every block length is in
\* 1..block_size, only the last block may be shorter than block_size, and the
\* lengths sum to the piece's length: `len` for a non-terminal piece,
\* `last_len` for the terminal one.
C9_BlockLayout ==
    pm_state = "built" =>
        \A j \in 1..Len(manager.pieces) :
            LET b == manager.pieces[j].blocks
                n == Len(b)
            IN  /\ n >= 1
                /\ b[1].offset = 0
                /\ \A k \in 2..n :
                      /\ b[k].offset = b[k - 1].offset + b[k - 1].length
                      /\ b[k].offset > b[k - 1].offset
                /\ \A k \in 1..n : b[k].length >= 1 /\ b[k].length <= block_size
                /\ \A k \in 1..(n - 1) : b[k].length = block_size
                /\ BlockLengthSum(manager.pieces[j]) =
                      (IF j = Len(manager.pieces) THEN manager.last_len ELSE manager.len)

\* C9 witness: new built two pieces, the first of several blocks with a short
\* last block, the terminal one shorter than the first.
C9_Witness ==
    /\ pm_state = "built"
    /\ Len(manager.pieces) = 2
    /\ Len(manager.pieces[1].blocks) >= 2
    /\ manager.pieces[1].blocks[Len(manager.pieces[1].blocks)].length < block_size
    /\ BlockLengthSum(manager.pieces[2]) < BlockLengthSum(manager.pieces[1])

\* the terminal piece's length as the metainfo defines it: total size minus
\* the pieces before it, zero mapped to a full piece
MetainfoLastLen(t) ==
    LET r == total_size(t) - (pieces_count(t) - 1) * piece_length(t)
    IN  IF r = 0 THEN piece_length(t) ELSE r

\* C10 (as claimed): for every accepted torrent the terminal piece built by
\* new has the metainfo's last-piece length, and the block lengths of all
\* pieces sum to the total size.
C10_TerminalPieceLength ==
    (pm_state = "built" /\ Len(manager.pieces) >= 1) =>
        /\ BlockLengthSum(manager.pieces[Len(manager.pieces)]) = MetainfoLastLen(torrent)
        /\ SumSeq([ j \in 1..Len(manager.pieces) |-> BlockLengthSum(manager.pieces[j]) ])
              = total_size(torrent)

----------------------------------------------------------------------------
(* protocol.rs: the wire codec.  A buffer is a sequence of bytes (0..255); *)
(* byte i of the code's buffer is element i+1.  A u32 is an integer; the   *)
(* values drawn stay below 2^31, the largest integer TLC computes with.    *)

\* the longest Bitfield payload and Piece block of the messages encoded
MaxBytes == 2
\* the largest length a raw frame announces, and the most bytes it carries
\* after its type id
MaxFrameLen == 14

\* a write_u32 with its two low bytes exchanged
U32LowBytesSwapped(n) ==
    << n \div 16777216, (n \div 65536) % 256, n % 256, (n \div 256) % 256 >>

\* byteorder::WriteBytesExt::write_u32::<BigEndian>
U32BE(n) ==
    << n \div 16777216, (n \div 65536) % 256, (n \div 256) % 256, n % 256 >>

\* byteorder::ReadBytesExt::read_u32::<BigEndian> of the four bytes from `at`
ReadU32(buf, at) ==
    buf[at] * 16777216 + buf[at + 1] * 65536 + buf[at + 2] * 256 + buf[at + 3]

\* the bytes of buf from element `from` on (a slice advanced by its reads)
Rest(buf, from) == SubSeq(buf, from, Len(buf))

Choke == [ type |-> "Choke" ]
Unchoke == [ type |-> "Unchoke" ]
Interested == [ type |-> "Interested" ]
NotInterested == [ type |-> "NotInterested" ]
Have(index) == [ type |-> "Have", index |-> index ]
Bitfield(bitfield) == [ type |-> "Bitfield", bitfield |-> bitfield ]
Request(index, begin, length) ==
    [ type |-> "Request", index |-> index, begin |-> begin, length |-> length ]
Piece(index, begin, block) ==
    [ type |-> "Piece", index |-> index, begin |-> begin, block |-> block ]
Cancel(index, begin, length) ==
    [ type |-> "Cancel", index |-> index, begin |-> begin, length |-> length ]

\* Message::encode
MessageEncode(m) ==
    CASE m.type = "Choke" -> U32BE(1) \o << 0 >>
      [] m.type = "Unchoke" -> U32BE(1) \o << 1 >>
      [] m.type = "Interested" -> U32BE(1) \o << 2 >>
      [] m.type = "NotInterested" -> U32BE(1) \o << 3 >>
      [] m.type = "Have" -> U32BE(5) \o << 4 >> \o U32BE(m.index)
      [] m.type = "Bitfield" -> U32BE(1 + Len(m.bitfield)) \o << 5 >> \o m.bitfield
      [] m.type = "Request" ->
            U32BE(13) \o << 6 >> \o U32BE(m.index) \o U32BE(m.begin) \o U32BE(m.length)
      [] m.type = "Piece" ->
            U32BE(9 + Len(m.block)) \o << 7 >> \o U32BE(m.index) \o U32BE(m.begin)
                \o m.block
      [] m.type = "Cancel" ->
            U32BE(13) \o << 8 >> \o U32BE(m.index) \o U32BE(m.begin) \o U32BE(m.length)

\* the results of Message::decode: Err(_), Ok(None), Ok(Some(m))
DecodeErr == [ kind |-> "Err" ]
DecodeNone == [ kind |-> "None" ]
DecodeSome(m) == [ kind |-> "Some", msg |-> m ]

\* decode without the check of the announced length
IncompleteDataNever(rest, len) == FALSE

\* the check that the bytes after the prefix are as many as announced
IncompleteData(rest, len) == Len(rest) < len

\* a read of n bytes from a slice fails when the slice is shorter
\* (std::io::Read for &[u8]); every read of decode maps the failure to Err
ReadFails(body, n) == Len(body) < n

\* Message::decode, after the length and the type id were read: `body` is the
\* buffer behind the id
DecodeBody(id, payload_len, body) ==
    CASE id = 0 -> DecodeSome(Choke)
      [] id = 1 -> DecodeSome(Unchoke)
      [] id = 2 -> DecodeSome(Interested)
      [] id = 3 -> DecodeSome(NotInterested)
      [] id = 4 ->
            IF payload_len # 4 \/ ReadFails(body, 4) THEN DecodeErr
            ELSE DecodeSome(Have(ReadU32(body, 1)))
      [] id = 5 ->
            IF ReadFails(body, payload_len) THEN DecodeErr
            ELSE DecodeSome(Bitfield(SubSeq(body, 1, payload_len)))
      [] id = 6 ->
            IF payload_len # 12 \/ ReadFails(body, 12) THEN DecodeErr
            ELSE DecodeSome(Request(ReadU32(body, 1), ReadU32(body, 5), ReadU32(body, 9)))
      [] id = 7 ->
            IF payload_len < 8 \/ ReadFails(body, payload_len) THEN DecodeErr
            ELSE DecodeSome(Piece(ReadU32(body, 1), ReadU32(body, 5),
                                  SubSeq(body, 9, payload_len)))
      [] id = 8 ->
            IF payload_len # 12 \/ ReadFails(body, 12) THEN DecodeErr
            ELSE DecodeSome(Cancel(ReadU32(body, 1), ReadU32(body, 5), ReadU32(body, 9)))
      [] OTHER -> DecodeErr

\* Message::decode
MessageDecode(buf) ==
    IF Len(buf) < 4 THEN DecodeErr
    ELSE LET len == ReadU32(buf, 1)
             rest == Rest(buf, 5)
         IN  IF len = 0 THEN DecodeNone
             ELSE IF IncompleteData(rest, len) \/ ReadFails(rest, 1) THEN DecodeErr
             ELSE DecodeBody(rest[1], len - 1, Rest(rest, 2))

\* Handshake::encode and ::decode

\* protocol.rs:8, "BitTorrent protocol" in ASCII
PROTOCOL_STR ==
    << 66, 105, 116, 84, 111, 114, 114, 101, 110, 116,
       32, 112, 114, 111, 116, 111, 99, 111, 108 >>

HANDSHAKE_LEN == 68

Zeros(n) == [ j \in 1..n |-> 0 ]

\* reserved bytes that are not zero
ReservedOnes == [ j \in 1..8 |-> 1 ]

\* the reserved bytes buf[20..28], left as the zeroed array has them
Reserved == Zeros(8)

\* Handshake::encode: buf[0] = 19, buf[1..20] = pstr, buf[20..28] stay zero,
\* buf[28..48] = info_hash, buf[48..68] = peer_id
HandshakeEncode(h) ==
    [ j \in 1..HANDSHAKE_LEN |->
        IF j = 1 THEN Len(PROTOCOL_STR)
        ELSE IF j <= 1 + Len(PROTOCOL_STR) THEN PROTOCOL_STR[j - 1]
        ELSE IF j <= 28 THEN Reserved[j - 1 - Len(PROTOCOL_STR)]
        ELSE IF j <= 48 THEN h.info_hash[j - 28]
        ELSE h.peer_id[j - 48] ]

HandshakeErr == [ kind |-> "Err" ]
HandshakeOk(info_hash, peer_id) ==
    [ kind |-> "Ok", info_hash |-> info_hash, peer_id |-> peer_id ]

\* a protocol-string check that skips the last byte
BadProtocolStringPrefix(buf) ==
    SubSeq(buf, 2, buf[1]) # SubSeq(PROTOCOL_STR, 1, Len(PROTOCOL_STR) - 1)

\* the protocol-string check of decode (protocol.rs:60-64)
BadProtocolString(buf) == SubSeq(buf, 2, 1 + buf[1]) # PROTOCOL_STR

\* Handshake::decode
HandshakeDecode(buf) ==
    IF Len(buf) # HANDSHAKE_LEN THEN HandshakeErr
    ELSE IF buf[1] # Len(PROTOCOL_STR) THEN HandshakeErr
    ELSE IF BadProtocolString(buf) THEN HandshakeErr
    ELSE HandshakeOk(SubSeq(buf, 29, 48), SubSeq(buf, 49, 68))

----------------------------------------------------------------------------
(* main.rs: the download loop.                                             *)

\* main.rs:47: Semaphore::new(CONCURRENCY), with one permit too many
InitialPermitsPlusOne == CONCURRENCY + 1

\* main.rs:47: Semaphore::new(CONCURRENCY)
InitialPermits == CONCURRENCY

\* main.rs:86 with one iteration too few
WaitIterationsShort == CONCURRENCY - 1

\* main.rs:86: for _ in 0..CONCURRENCY
WaitIterations == CONCURRENCY

\* a get_batch that drains one piece more than it hands out
get_batch_overdrain(q) ==
    IF q = << >>
    THEN [ batch |-> << >>, rest |-> q ]
    ELSE LET count == Min(BATCH_SIZE, Len(q))
         IN  [ batch |-> SubSeq(q, 1, count), rest |-> SubSeq(q, count + 2, Len(q)) ]

\* get_batch, under the lock: the pieces handed out and what stays queued
get_batch(q) ==
    IF q = << >>
    THEN [ batch |-> << >>, rest |-> q ]
    ELSE LET count == Min(BATCH_SIZE, Len(q))
         IN  [ batch |-> SubSeq(q, 1, count), rest |-> SubSeq(q, count + 1, Len(q)) ]

\* a select_peer that leaves the index where it was
select_peer_stuck(ps, idx) ==
    [ peer |-> ps[idx + 1], idx |-> idx ]

\* select_peer, under the lock: the peer returned and the new index
select_peer(ps, idx) ==
    [ peer |-> ps[idx + 1], idx |-> (idx + 1) % Len(ps) ]

\* the task main.rs:78-82 spawns: it owns the permit and a clone of the batch.
\* `batch` stays in the record after the task has finished, as the record of
\* what the task was handed; the task's copy is dropped with the task.
NewTask(b) ==
    [ pc |-> "select_peer", peer |-> 0, batch |-> b, permit |-> TRUE,
      conn |-> << >>, sent |-> << >>, received |-> << >>, result |-> "none" ]

\* peer.rs:43-49: the PeerConnection as connect creates it
NewConnection == [ choked |-> TRUE, available_pieces |-> {} ]

\* the torrents the loop is run on: single-file, piece table consistent with
\* the length, cnt pieces
LoopTorrent(cnt) ==
    [ piece_length |-> MaxPieceLen, pieces |-> 20 * cnt,
      length |-> << cnt * MaxPieceLen >>, files |-> << >> ]

\* main.rs:39-49: the state when download_loop is entered; the roster is not
\* empty and peers are told apart by their position in it
Init ==
    /\ \E cnt \in 0..NumPieces : torrent = LoopTorrent(cnt)
    /\ block_size = MaxBlockSize
    /\ pm_state = "moved"
    /\ manager = NoManager
    /\ corrupt = {}
    /\ calls = 0
    /\ hit_complete = FALSE
    /\ pieces = PieceManagerNew(torrent, block_size).pieces
    /\ \E n \in 1..NumPeers : peers = [ k \in 1..n |-> k ]
    /\ sem = InitialPermits
    /\ forgotten = 0
    /\ peer_idx = 0
    /\ pieces_lock = 0
    /\ idx_lock = 0
    /\ main_pc = "get_batch"
    /\ batch = << >>
    /\ main_permit = FALSE
    /\ waited = 0
    /\ tasks = << >>
    /\ ProtoIdle

inputVars == << torrent, block_size, peers, fromFileVars, wireVars, sessVars, trackerVars >>

\* main.rs:92: pieces.lock().await
GetBatchLock ==
    /\ main_pc = "get_batch"
    /\ pieces_lock = 0
    /\ pieces_lock' = -1
    /\ main_pc' = "get_batch_locked"
    /\ UNCHANGED << inputVars, managerVars, pieces, sem, forgotten, peer_idx, idx_lock,
                    batch, main_permit, waited, tasks >>

\* main.rs:93-98 and 67-70: drain under the lock, release it, break on empty
GetBatch ==
    /\ main_pc = "get_batch_locked"
    /\ batch' = get_batch(pieces).batch
    /\ pieces' = get_batch(pieces).rest
    /\ pieces_lock' = 0
    /\ main_pc' = IF batch' = << >> THEN "wait" ELSE "acquire"
    /\ UNCHANGED << inputVars, managerVars, sem, forgotten, peer_idx, idx_lock,
                    main_permit, waited, tasks >>

\* main.rs:72: sem.clone().acquire_owned().await
AcquirePermit ==
    /\ main_pc = "acquire"
    /\ sem > 0
    /\ sem' = sem - 1
    /\ main_permit' = TRUE
    /\ main_pc' = "spawn"
    /\ UNCHANGED << inputVars, managerVars, pieces, forgotten, peer_idx, pieces_lock,
                    idx_lock, batch, waited, tasks >>

\* main.rs:73-83: task::spawn; the permit and the batch clone move into the
\* task, the loop's own batch is dropped at the end of the iteration
Spawn ==
    /\ main_pc = "spawn"
    /\ tasks' = Append(tasks, NewTask(batch))
    /\ main_permit' = FALSE
    /\ batch' = << >>
    /\ main_pc' = "get_batch"
    /\ UNCHANGED << inputVars, managerVars, pieces, sem, forgotten, peer_idx,
                    pieces_lock, idx_lock, waited >>

\* main.rs:86-88: one iteration, sem.acquire().await.unwrap().forget()
WaitAcquire ==
    /\ main_pc = "wait"
    /\ waited < WaitIterations
    /\ sem > 0
    /\ sem' = sem - 1
    /\ forgotten' = forgotten + 1
    /\ waited' = waited + 1
    /\ UNCHANGED << inputVars, managerVars, pieces, peer_idx, pieces_lock, idx_lock,
                    main_pc, batch, main_permit, tasks >>

\* main.rs:89 and 54-55: download_loop returns, main prints "Download complete!"
Return ==
    /\ main_pc = "wait"
    /\ waited >= WaitIterations
    /\ main_pc' = "done"
    /\ UNCHANGED << inputVars, managerVars, pieces, sem, forgotten, peer_idx,
                    pieces_lock, idx_lock, batch, main_permit, waited, tasks >>

\* what a task step leaves alone
TaskFrame ==
    UNCHANGED << inputVars, managerVars, pieces, forgotten, pieces_lock, main_pc,
                 batch, main_permit, waited >>

\* runtime returned Err(e) (main.rs:80 discards it): the connection is dropped
Fail(t, e) ==
    tasks' = [tasks EXCEPT ![t].pc = "drop_permit", ![t].result = e, ![t].conn = << >>]

\* main.rs:102: peer_idx.lock().await
SelectPeerLock(t) ==
    /\ tasks[t].pc = "select_peer"
    /\ idx_lock = 0
    /\ idx_lock' = t
    /\ tasks' = [tasks EXCEPT ![t].pc = "select_peer_locked"]
    /\ UNCHANGED << sem, peer_idx >>
    /\ TaskFrame

\* a select_peer whose guard outlives the call
SelectPeerKeepsLock(t) ==
    /\ tasks[t].pc = "select_peer_locked"
    /\ tasks' = [tasks EXCEPT ![t].pc = "connect",
                              ![t].peer = select_peer(peers, peer_idx).peer]
    /\ peer_idx' = select_peer(peers, peer_idx).idx
    /\ UNCHANGED << sem, idx_lock >>
    /\ TaskFrame

\* main.rs:103-105: read the peer, advance the index, release the lock
SelectPeer(t) ==
    /\ tasks[t].pc = "select_peer_locked"
    /\ tasks' = [tasks EXCEPT ![t].pc = "connect",
                              ![t].peer = select_peer(peers, peer_idx).peer]
    /\ peer_idx' = select_peer(peers, peer_idx).idx
    /\ idx_lock' = 0
    /\ UNCHANGED sem
    /\ TaskFrame

\* peer.rs:35-49: TcpStream::connect, then the PeerConnection value
Connect(t) ==
    /\ tasks[t].pc = "connect"
    /\ \E ok \in BOOLEAN :
          IF ok
          THEN tasks' = [tasks EXCEPT ![t].pc = "write_handshake",
                                      ![t].conn = << NewConnection >>]
          ELSE Fail(t, "PeerError")
    /\ UNCHANGED << sem, peer_idx, idx_lock >>
    /\ TaskFrame

\* peer.rs:51-59: write_all(handshake) and flush
WriteHandshake(t) ==
    /\ tasks[t].pc = "write_handshake"
    /\ \E ok \in BOOLEAN :
          IF ok
          THEN tasks' = [tasks EXCEPT ![t].pc = "read_handshake",
                                      ![t].sent = Append(@, "handshake")]
          ELSE Fail(t, "PeerError")
    /\ UNCHANGED << sem, peer_idx, idx_lock >>
    /\ TaskFrame

\* main.rs:52: the info-hash of the torrent, handed to every session
LoopInfoHash == [ k \in 1..20 |-> k ]

\* the info-hash of some other torrent
OtherInfoHash == [ k \in 1..20 |-> 255 - k ]

\* the peer-id of the remote peer
RemotePeerId == [ k \in 1..20 |-> 100 + k ]

\* what a peer answers the handshake with
HandshakeReplies == { "good", "eof", "malformed", "other_info_hash" }

\* the bytes of an answer: a handshake for the torrent, one cut short by the
\* end of the stream, one with a wrong protocol string, one for another torrent
HandshakeReply(reply) ==
    LET good == HandshakeEncode([ info_hash |-> LoopInfoHash, peer_id |-> RemotePeerId ])
    IN  CASE reply = "good" -> good
          [] reply = "eof" -> SubSeq(good, 1, HANDSHAKE_LEN - 1)
          [] reply = "malformed" -> [ good EXCEPT ![2] = 0 ]
          [] reply = "other_info_hash" ->
                HandshakeEncode([ info_hash |-> OtherInfoHash, peer_id |-> RemotePeerId ])

\* an info-hash comparison that accepts every handshake
InfoHashMismatchNever(handshake, info_hash) == FALSE

\* peer.rs:68: handshake.info_hash != info_hash
InfoHashMismatch(handshake, info_hash) == handshake.info_hash # info_hash

\* peer.rs:61-72 on the bytes the peer answers with: read_exact of
\* HANDSHAKE_LEN bytes, Handshake::decode, the info_hash comparison
read_handshake(stream, info_hash) ==
    IF Len(stream) < HANDSHAKE_LEN THEN "PeerError"
    ELSE LET handshake == HandshakeDecode(SubSeq(stream, 1, HANDSHAKE_LEN))
         IN  IF handshake.kind = "Err" THEN "ParserError"
             ELSE IF InfoHashMismatch(handshake, info_hash) THEN "ProtocolError"
             ELSE "Ok"

\* peer.rs:61-72: read_exact of 68 bytes, Handshake::decode, info_hash check
ReadHandshake(t) ==
    /\ tasks[t].pc = "read_handshake"
    /\ \E reply \in HandshakeReplies :
          LET outcome == read_handshake(HandshakeReply(reply), LoopInfoHash)
          IN  IF outcome = "Ok"
              THEN tasks' = [tasks EXCEPT ![t].pc = "send_interested",
                                          ![t].received = << reply >>]
              ELSE tasks' = [tasks EXCEPT ![t].pc = "drop_permit",
                                          ![t].result = outcome,
                                          ![t].conn = << >>,
                                          ![t].received = << reply >>]
    /\ UNCHANGED << sem, peer_idx, idx_lock >>
    /\ TaskFrame

\* main.rs:125 and peer.rs:79-89: send_interested; then runtime returns Ok(())
\* and the connection is dropped
SendInterested(t) ==
    /\ tasks[t].pc = "send_interested"
    /\ \E ok \in BOOLEAN :
          IF ok
          THEN tasks' = [tasks EXCEPT ![t].pc = "drop_permit", ![t].result = "Ok",
                                      ![t].sent = Append(@, "interested"),
                                      ![t].conn = << >>]
          ELSE Fail(t, "PeerError")
    /\ UNCHANGED << sem, peer_idx, idx_lock >>
    /\ TaskFrame

\* main.rs:81: drop(permit); the task ends
DropPermit(t) ==
    /\ tasks[t].pc = "drop_permit"
    /\ sem' = sem + 1
    /\ tasks' = [tasks EXCEPT ![t].pc = "finished", ![t].permit = FALSE]
    /\ UNCHANGED << peer_idx, idx_lock >>
    /\ TaskFrame

Next ==
    \/ GetBatchLock
    \/ GetBatch
    \/ AcquirePermit
    \/ Spawn
    \/ WaitAcquire
    \/ Return
    \/ \E t \in 1..Len(tasks) : SelectPeerLock(t)
    \/ \E t \in 1..Len(tasks) : SelectPeer(t)
    \/ \E t \in 1..Len(tasks) : Connect(t)
    \/ \E t \in 1..Len(tasks) : WriteHandshake(t)
    \/ \E t \in 1..Len(tasks) : ReadHandshake(t)
    \/ \E t \in 1..Len(tasks) : SendInterested(t)
    \/ \E t \in 1..Len(tasks) : DropPermit(t)

Spec == Init /\ [][Next]_vars

----------------------------------------------------------------------------
(* Claims about the download loop.                                         *)

\* the elements of a sequence
Range(q) == { q[k] : k \in 1..Len(q) }

\* the tasks that run: spawned and not yet past drop(permit)
LiveTasks == { t \in 1..Len(tasks) : tasks[t].pc # "finished" }

\* every Piece value in existence or handed to a task
PieceCopies ==
    Range(pieces) \cup Range(batch) \cup UNION { Range(tasks[t].batch) : t \in 1..Len(tasks) }

\* piece i has been downloaded: some copy of it has every block Downloaded
PieceDone(i) == \E p \in PieceCopies : p.index = i /\ AllDownloaded(p)

\* the piece indices still in the pool of work: queued, in main's hands, or
\* held by a task that runs
WorkRemaining ==
    { p.index : p \in Range(pieces) \cup Range(batch) } \cup
    UNION { { p.index : p \in Range(tasks[t].batch) } : t \in LiveTasks }

\* the piece indices of the torrent
AllPieces == 0..(pieces_count(torrent) - 1)

\* C1 (as claimed): when the loop has terminated and main reports the
\* download complete, with every session having met a cooperating peer, every
\* piece is complete and no block is left reserved (Requested).
C1_DoneMeansAllComplete ==
    (main_pc = "done" /\ \A t \in 1..Len(tasks) : tasks[t].result = "Ok") =>
        /\ \A i \in AllPieces : PieceDone(i)
        /\ \A p \in PieceCopies :
              \A k \in 1..Len(p.blocks) : p.blocks[k].state # "Requested"

\* C2 (as claimed): no piece taken out by get_batch is lost: every piece is
\* downloaded, or still queued, or in the hands of main or of a running
\* session; what a terminated session held is back in the pool.
C2_TerminatedWorkReturns ==
    \A i \in AllPieces : PieceDone(i) \/ i \in WorkRemaining

\* C4: at most CONCURRENCY sessions are live; every permit is in the
\* semaphore, with main (acquired, task not yet spawned), with a live session
\* or forgotten by the final wait; a session holds its permit from its spawn
\* until it ends, on every way it ends.
C4_AtMostKSessions ==
    /\ Cardinality(LiveTasks) <= CONCURRENCY
    /\ sem >= 0
    /\ sem + Cardinality(LiveTasks) + (IF main_permit THEN 1 ELSE 0) + forgotten
          = CONCURRENCY
    /\ \A t \in 1..Len(tasks) : tasks[t].permit <=> t \in LiveTasks

\* C4 witness: CONCURRENCY sessions are live, one of them on its way out with
\* an error, and main waits for a permit with the next batch in hand.
C4_Witness ==
    /\ Cardinality(LiveTasks) = CONCURRENCY
    /\ sem = 0
    /\ main_pc = "acquire"
    /\ batch # << >>
    /\ \E t \in LiveTasks : tasks[t].result = "PeerError"

\* C5: when download_loop has returned, every task it spawned has finished
\* and released its permit.
C5_ReturnsAfterAllSessions ==
    main_pc = "done" =>
        \A t \in 1..Len(tasks) : tasks[t].pc = "finished" /\ ~tasks[t].permit

\* C5 witness: the loop has returned after spawning more sessions than there
\* are permits.
C5_Witness ==
    /\ main_pc = "done"
    /\ Len(tasks) > CONCURRENCY

\* C6 (as claimed): a session connected to a peer holds only pieces that are
\* in the set that peer advertises.
C6_WorkWithinAdvertisedSet ==
    \A t \in LiveTasks :
        tasks[t].conn # << >> =>
            \A p \in Range(tasks[t].batch) :
                p.index \in tasks[t].conn[1].available_pieces

----------------------------------------------------------------------------
(* torrent.rs: Torrent::from_file and the bytes info_hash digests.         *)
(*                                                                         *)
(* A bencoded dictionary's bytes are modelled by its entries in the order  *)
(* the bytes hold them: two byte ranges are equal exactly when they hold   *)
(* the same entries in the same order.  A key is its rank in the byte      *)
(* order of the keys an `info` dictionary may hold; values are integers    *)
(* (a string value by its length).                                         *)

\* the keys of `info`, in byte order (torrent.rs:20-28)
InfoKeys == << "length", "name", "piece length", "pieces" >>

KeyRank(name) == CHOOSE r \in 1..Len(InfoKeys) : InfoKeys[r] = name

\* all orderings of a set of key ranks
RECURSIVE Orderings(_)
Orderings(S) ==
    IF S = {} THEN { << >> }
    ELSE UNION { { << k >> \o o : o \in Orderings(S \ { k }) } : k \in S }

\* the value a source gives a key: the piece length varies, the rest is fixed
SourceValue(r, pl) ==
    CASE InfoKeys[r] = "length" -> MaxTotal
      [] InfoKeys[r] = "name" -> 1
      [] InfoKeys[r] = "piece length" -> pl
      [] InfoKeys[r] = "pieces" -> 20 * MaxCount

\* the `info` dictionaries of the files read: every ordering of all four
\* keys, or of all but one
SourceInfos ==
    { [ j \in 1..Len(o) |-> [ key |-> o[j], val |-> SourceValue(o[j], pl) ] ] :
        o \in UNION { Orderings(S) : S \in { T \in SUBSET (1..Len(InfoKeys)) :
                                               Cardinality(T) >= Len(InfoKeys) - 1 } },
        pl \in 1..MaxPieceLen }

\* serde_bencode::from_bytes into a map (torrent.rs:53-55): the entries by key,
\* their order in the bytes is not kept
Bdecode(entries) ==
    [ k \in { entries[j].key : j \in 1..Len(entries) } |->
        (CHOOSE e \in Range(entries) : e.key = k).val ]

\* serde_bencode::to_bytes of a dictionary value (torrent.rs:63): the
\* serializer writes the entries sorted by key
RECURSIVE Bencode(_)
Bencode(map) ==
    IF DOMAIN map = {} THEN << >>
    ELSE LET k == CHOOSE x \in DOMAIN map : \A y \in DOMAIN map : x <= y
         IN  << [ key |-> k, val |-> map[k] ] >>
               \o Bencode([ y \in DOMAIN map \ { k } |-> map[y] ])

\* torrent.rs:53-64: info_raw_bytes is the re-encoding of the parsed value
InfoRawBytes(src) == Bencode(Bdecode(src))

\* torrent.rs:67-68: the typed view needs name, piece length and pieces;
\* length is an Option
Deserializes(map) ==
    { KeyRank("name"), KeyRank("piece length"), KeyRank("pieces") } \subseteq DOMAIN map

\* torrent.rs:67-73: the Torrent returned
TypedTorrent(map) ==
    [ piece_length |-> map[KeyRank("piece length")],
      pieces |-> map[KeyRank("pieces")],
      length |-> IF KeyRank("length") \in DOMAIN map
                 THEN << map[KeyRank("length")] >> ELSE << >>,
      files |-> << >> ]

\* Torrent::info_hash digests info_raw_bytes (torrent.rs:77-82); SHA-1 is
\* taken to be injective, so the hash is identified with the bytes digested
info_hash_input == info_raw_bytes[1]

NoTorrent == [ piece_length |-> 0, pieces |-> 0, length |-> << >>, files |-> << >> ]

InitFromFile ==
    /\ torrent = NoTorrent
    /\ block_size = 0
    /\ pm_state = "unbuilt"
    /\ manager = NoManager
    /\ corrupt = {}
    /\ calls = 0
    /\ hit_complete = FALSE
    /\ LoopIdle
    /\ file_pc = "read"
    /\ source_info \in SourceInfos
    /\ info_raw_bytes = << >>
    /\ wire_pc = "unused"
    /\ wire_in = [ kind |-> "none" ]
    /\ wire_buf = << >>
    /\ wire_out = [ kind |-> "none" ]
    /\ sess_pc = "unused"
    /\ sess_conn = [ choked |-> TRUE, available_pieces |-> {} ]
    /\ sess_sent = << >>
    /\ sess_stream = << >>
    /\ sess_handled = << >>
    /\ TrackerIdle

\* Torrent::from_file
FromFile ==
    /\ file_pc = "read"
    /\ IF Deserializes(Bdecode(source_info))
       THEN /\ file_pc' = "ok"
            /\ info_raw_bytes' = << InfoRawBytes(source_info) >>
            /\ torrent' = TypedTorrent(Bdecode(source_info))
       ELSE /\ file_pc' = "err"
            /\ UNCHANGED << info_raw_bytes, torrent >>
    /\ UNCHANGED << block_size, managerVars, loopVars, source_info, wireVars, sessVars, trackerVars >>

SpecFromFile == InitFromFile /\ [][FromFile]_vars

\* C11 (as claimed): the bytes info_hash digests are the byte range of the
\* info value as the source file holds it, whatever the order of its keys.
C11_InfoHashOverSourceBytes ==
    file_pc = "ok" => info_hash_input = source_info

----------------------------------------------------------------------------
(* protocol.rs: the inputs of the codec and its specification.            *)

\* inputs of the codec

U32Samples == { 0, 258, 2147483647 }
ByteSamples == { 0, 1, 128, 255 }

RECURSIVE ByteSeqs(_)
ByteSeqs(n) ==
    IF n = 0 THEN { << >> }
    ELSE ByteSeqs(n - 1)
           \cup { Append(b, x) : b \in { c \in ByteSeqs(n - 1) : Len(c) = n - 1 },
                                 x \in ByteSamples }

\* the messages encoded: every variant, with an empty Bitfield and a Piece
\* with an empty block among them
Messages ==
    { Choke, Unchoke, Interested, NotInterested }
      \cup { Have(i) : i \in U32Samples }
      \cup { Bitfield(b) : b \in ByteSeqs(MaxBytes) }
      \cup { Request(i, b, l) : i \in U32Samples, b \in U32Samples, l \in U32Samples }
      \cup { Cancel(i, b, l) : i \in U32Samples, b \in U32Samples, l \in U32Samples }
      \cup { Piece(i, b, blk) : i \in U32Samples, b \in U32Samples,
                                blk \in ByteSeqs(MaxBytes) }

\* the bytes a raw frame carries behind its type id
FrameBytes(n) == [ j \in 1..n |-> (37 * j + 100) % 128 ]

FrameIds == 0..9 \cup { 255 }
FrameLens == 0..MaxFrameLen \cup { 2147483647 }

\* the buffers decoded: too short for a prefix, or a prefix announcing `len`
\* followed by n bytes, the first of them the type id
RawFrames ==
    { Zeros(k) : k \in 0..3 }
      \cup { U32BE(len) \o SubSeq(<< id >> \o FrameBytes(MaxFrameLen + 1), 1, n) :
               len \in FrameLens, id \in FrameIds, n \in 0..(MaxFrameLen + 1) }

\* 20-byte values whose bytes differ by position
HashSamples == { [ k \in 1..20 |-> (s + k) % 256 ] : s \in { 0, 100, 236 } }

Handshakes == [ info_hash : HashSamples, peer_id : HashSamples ]

\* the buffers Handshake::decode is given: an encoding, cut short, extended,
\* or with one of its first 28 bytes replaced
RawHandshakes ==
    UNION { LET enc == HandshakeEncode(h)
            IN  { enc, enc \o << 0 >> }
                  \cup { SubSeq(enc, 1, n) : n \in { 0, 1, HANDSHAKE_LEN - 1 } }
                  \cup { [ enc EXCEPT ![j] = x ] : j \in 1..28, x \in { 0, 19, 255 } }
          : h \in Handshakes }

WireIdle ==
    /\ torrent = NoTorrent
    /\ block_size = 0
    /\ pm_state = "unbuilt"
    /\ manager = NoManager
    /\ corrupt = {}
    /\ calls = 0
    /\ hit_complete = FALSE
    /\ LoopIdle
    /\ file_pc = "unused"
    /\ source_info = << >>
    /\ info_raw_bytes = << >>
    /\ sess_pc = "unused"
    /\ sess_conn = [ choked |-> TRUE, available_pieces |-> {} ]
    /\ sess_sent = << >>
    /\ sess_stream = << >>
    /\ sess_handled = << >>
    /\ TrackerIdle

InitWire ==
    /\ WireIdle
    /\ wire_out = [ kind |-> "none" ]
    /\ \/ /\ wire_pc = "encode"
          /\ wire_in \in { [ kind |-> "Message", msg |-> m ] : m \in Messages }
          /\ wire_buf = << >>
       \/ /\ wire_pc = "decode"
          /\ wire_in = [ kind |-> "none" ]
          /\ wire_buf \in RawFrames
       \/ /\ wire_pc = "handshake_encode"
          /\ wire_in \in { [ kind |-> "Handshake", handshake |-> h ] : h \in Handshakes }
          /\ wire_buf = << >>
       \/ /\ wire_pc = "handshake_decode"
          /\ wire_in = [ kind |-> "none" ]
          /\ wire_buf \in RawHandshakes

WireOthers == << torrent, block_size, managerVars, loopVars, fromFileVars, sessVars, trackerVars >>

\* Message::encode of the message given; its bytes are decoded next
Encode ==
    /\ wire_pc = "encode"
    /\ wire_buf' = MessageEncode(wire_in.msg)
    /\ wire_pc' = "decode"
    /\ UNCHANGED << wire_in, wire_out, WireOthers >>

\* Message::decode of the buffer
Decode ==
    /\ wire_pc = "decode"
    /\ wire_out' = MessageDecode(wire_buf)
    /\ wire_pc' = "done"
    /\ UNCHANGED << wire_in, wire_buf, WireOthers >>

\* Handshake::encode of the handshake given; its bytes are decoded next
EncodeHandshake ==
    /\ wire_pc = "handshake_encode"
    /\ wire_buf' = HandshakeEncode(wire_in.handshake)
    /\ wire_pc' = "handshake_decode"
    /\ UNCHANGED << wire_in, wire_out, WireOthers >>

\* Handshake::decode of the buffer
DecodeHandshake ==
    /\ wire_pc = "handshake_decode"
    /\ wire_out' = HandshakeDecode(wire_buf)
    /\ wire_pc' = "handshake_done"
    /\ UNCHANGED << wire_in, wire_buf, WireOthers >>

NextWire == Encode \/ Decode \/ EncodeHandshake \/ DecodeHandshake

SpecWire == InitWire /\ [][NextWire]_vars

\* the payload length of a message, by the message table
PayloadLength(m) ==
    CASE m.type \in { "Choke", "Unchoke", "Interested", "NotInterested" } -> 0
      [] m.type = "Have" -> 4
      [] m.type = "Bitfield" -> Len(m.bitfield)
      [] m.type \in { "Request", "Cancel" } -> 12
      [] m.type = "Piece" -> 8 + Len(m.block)

\* C12: decode(encode(m)) is Ok(Some(m)) for every message m, and the
\* big-endian length prefix of encode(m) is 1 + the payload length of m.
C12_MessageRoundTrip ==
    (wire_in.kind = "Message" /\ wire_pc \in { "decode", "done" }) =>
        /\ ReadU32(wire_buf, 1) = 1 + PayloadLength(wire_in.msg)
        /\ Len(wire_buf) = 4 + 1 + PayloadLength(wire_in.msg)
        /\ wire_pc = "done" => wire_out = DecodeSome(wire_in.msg)

\* a Piece with an empty block was encoded and decoded
C12_Witness ==
    /\ wire_pc = "done"
    /\ wire_in.kind = "Message"
    /\ wire_in.msg.type = "Piece"
    /\ wire_in.msg.block = << >>
    /\ wire_in.msg.index = 2147483647
    /\ wire_out.kind = "Some"

\* the announced lengths the message table allows for a type id
TableLength(id, len) ==
    CASE id \in 0..3 -> len = 1
      [] id = 4 -> len = 5
      [] id = 5 -> len >= 1
      [] id \in { 6, 8 } -> len = 13
      [] id = 7 -> len >= 9
      [] OTHER -> FALSE

\* C13 (as claimed): decode yields a message only for a frame whose
\* announced length is the one the message table gives for its type id.
C13_LengthMatchesTable ==
    (wire_pc = "done" /\ wire_out.kind = "Some") =>
        TableLength(wire_buf[5], ReadU32(wire_buf, 1))

\* C14: decode returns an error for a frame of non-zero length whose type id
\* is outside 0..8, and for a buffer holding fewer bytes behind the prefix
\* than the prefix announces (or too short to hold a prefix).
C14_DecodeRejects ==
    wire_pc = "done" =>
        ((\/ Len(wire_buf) < 4
          \/ /\ ReadU32(wire_buf, 1) # 0
             /\ \/ Len(wire_buf) - 4 < ReadU32(wire_buf, 1)
                \/ wire_buf[5] \notin 0..8)
            => wire_out = DecodeErr)

\* a Choke frame announcing two bytes and holding one was rejected
C14_Witness ==
    /\ wire_pc = "done"
    /\ wire_in.kind = "none"
    /\ wire_buf = U32BE(2) \o << 0 >>
    /\ wire_out = DecodeErr

\* C15: encode lays the handshake out as 68 bytes: 19, the protocol string,
\* eight zero bytes, the info-hash, the peer-id; decode of them gives back
\* the info-hash and the peer-id.
C15_HandshakeRoundTrip ==
    (wire_in.kind = "Handshake" /\ wire_pc \in { "handshake_decode", "handshake_done" }) =>
        /\ Len(wire_buf) = 68
        /\ wire_buf[1] = 19
        /\ SubSeq(wire_buf, 2, 20) = PROTOCOL_STR
        /\ \A j \in 21..28 : wire_buf[j] = 0
        /\ SubSeq(wire_buf, 29, 48) = wire_in.handshake.info_hash
        /\ SubSeq(wire_buf, 49, 68) = wire_in.handshake.peer_id
        /\ wire_pc = "handshake_done" =>
              wire_out = HandshakeOk(wire_in.handshake.info_hash,
                                     wire_in.handshake.peer_id)

\* a handshake whose info-hash and peer-id differ was encoded and decoded
C15_Witness ==
    /\ wire_pc = "handshake_done"
    /\ wire_in.kind = "Handshake"
    /\ wire_in.handshake.info_hash # wire_in.handshake.peer_id
    /\ wire_out.kind = "Ok"

\* C16: decode returns an error for an input that is not 68 bytes long, whose
\* first byte is not 19, or whose protocol string differs in any position.
C16_HandshakeRejects ==
    wire_pc = "handshake_done" =>
        ((\/ Len(wire_buf) # 68
          \/ wire_buf[1] # 19
          \/ \E j \in 1..19 : wire_buf[1 + j] # PROTOCOL_STR[j])
            => wire_out = HandshakeErr)

\* a 68-byte input differing from the protocol string in its last byte only
\* was rejected
C16_Witness ==
    /\ wire_pc = "handshake_done"
    /\ Len(wire_buf) = 68
    /\ wire_buf[1] = 19
    /\ SubSeq(wire_buf, 2, 19) = SubSeq(PROTOCOL_STR, 1, 18)
    /\ wire_buf[20] # PROTOCOL_STR[19]
    /\ wire_out = HandshakeErr

----------------------------------------------------------------------------
(* peer.rs: PeerConnection::read_messages on an established connection.    *)
(* The connection delivers the bytes of the frames the peer sent and then  *)
(* ends.                                                                   *)

\* the most frames a peer sends before it closes the connection
MaxStream == 3

\* what a peer sends: a keep-alive, a message, or bytes that encode neither
KeepAlive == [ type |-> "KeepAlive" ]
Raw(bytes) == [ type |-> "Raw", bytes |-> bytes ]

\* the bytes of a frame on the wire
FrameOf(f) ==
    CASE f.type = "KeepAlive" -> U32BE(0)
      [] f.type = "Raw" -> f.bytes
      [] OTHER -> MessageEncode(f)

RECURSIVE StreamOf(_)
StreamOf(fs) == IF fs = << >> THEN << >> ELSE FrameOf(Head(fs)) \o StreamOf(Tail(fs))

\* the frames peers send: Have and Bitfield inside and outside the torrent's
\* pieces, an unknown type id, and a Have cut short
SessionFrames ==
    { KeepAlive, Choke, Unchoke, Interested,
      Have(0), Have(NumPieces),
      Bitfield(<< 128 >>), Bitfield(<< 1, 128 >>),
      Piece(0, 0, << 1 >>),
      Raw(U32BE(1) \o << 9 >>), Raw(U32BE(5) \o << 4 >>) }

RECURSIVE FrameSeqs(_)
FrameSeqs(n) ==
    IF n = 0 THEN { << >> }
    ELSE FrameSeqs(n - 1)
           \cup { Append(q, f) : q \in { r \in FrameSeqs(n - 1) : Len(r) = n - 1 },
                                 f \in SessionFrames }

\* PeerConnection::read_message on the bytes still to come: Ok(None) when the
\* prefix cannot be read or announces 0, PeerError when the frame is cut
\* short, else Message::decode of prefix and frame; `rest` is what stays unread
read_message(stream) ==
    IF Len(stream) < 4 THEN [ result |-> DecodeNone, rest |-> << >> ]
    ELSE LET size == ReadU32(stream, 1)
         IN  IF size = 0 THEN [ result |-> DecodeNone, rest |-> Rest(stream, 5) ]
             ELSE IF Len(stream) - 4 < size THEN [ result |-> DecodeErr, rest |-> << >> ]
             ELSE [ result |-> MessageDecode(SubSeq(stream, 1, 4 + size)),
                    rest |-> Rest(stream, 5 + size) ]

\* bit `bit` of a byte, counted from the most significant:
\* byte & (0b1000_0000 >> bit) != 0
BitSet(byte, bit) == (byte \div (2 ^ (7 - bit))) % 2 = 1

\* the indices the Bitfield arm inserts (peer.rs:111-117)
BitfieldPieces(bytes) ==
    UNION { { (i - 1) * 8 + bit : bit \in { b \in 0..7 : BitSet(bytes[i], b) } } :
              i \in 1..Len(bytes) }

\* the match of read_messages (peer.rs:103-131) on the connection's fields;
\* the Choke arm returns before it
Handled(conn, msg) ==
    CASE msg.type = "Unchoke" -> [ conn EXCEPT !.choked = FALSE ]
      [] msg.type = "Bitfield" ->
            [ conn EXCEPT !.available_pieces = @ \cup BitfieldPieces(msg.bitfield) ]
      [] msg.type = "Have" ->
            [ conn EXCEPT !.available_pieces = @ \cup { msg.index } ]
      [] OTHER -> conn

\* a connection as PeerConnection::connect returns it, to a peer about to
\* send some frames, for a torrent of NumPieces pieces
InitSession ==
    /\ torrent = LoopTorrent(NumPieces)
    /\ block_size = MaxBlockSize
    /\ pm_state = "unbuilt"
    /\ manager = NoManager
    /\ corrupt = {}
    /\ calls = 0
    /\ hit_complete = FALSE
    /\ LoopIdle
    /\ file_pc = "unused"
    /\ source_info = << >>
    /\ info_raw_bytes = << >>
    /\ wire_pc = "unused"
    /\ wire_in = [ kind |-> "none" ]
    /\ wire_buf = << >>
    /\ wire_out = [ kind |-> "none" ]
    /\ sess_pc = "reading"
    /\ sess_conn = NewConnection
    /\ sess_sent \in FrameSeqs(MaxStream)
    /\ sess_stream = StreamOf(sess_sent)
    /\ sess_handled = << >>
    /\ TrackerIdle

SessionOthers ==
    << torrent, block_size, managerVars, loopVars, fromFileVars, wireVars, sess_sent,
       trackerVars >>

\* read_message returns Ok(None): the while-let ends and read_messages
\* returns Ok(())
ReadNone ==
    /\ sess_pc = "reading"
    /\ read_message(sess_stream).result = DecodeNone
    /\ sess_pc' = "returned_ok"
    /\ sess_stream' = read_message(sess_stream).rest
    /\ UNCHANGED << sess_conn, sess_handled, SessionOthers >>

\* read_message returns Err: `?` returns it from read_messages
ReadErr ==
    /\ sess_pc = "reading"
    /\ read_message(sess_stream).result = DecodeErr
    /\ sess_pc' = "returned_err"
    /\ sess_stream' = read_message(sess_stream).rest
    /\ UNCHANGED << sess_conn, sess_handled, SessionOthers >>

\* read_message returns Ok(Some(Choke)): the arm returns ProtocolError
ReadChoke ==
    /\ sess_pc = "reading"
    /\ read_message(sess_stream).result = DecodeSome(Choke)
    /\ sess_pc' = "returned_err"
    /\ sess_stream' = read_message(sess_stream).rest
    /\ sess_handled' = Append(sess_handled, Choke)
    /\ UNCHANGED << sess_conn, SessionOthers >>

\* read_message returns any other message: its arm runs and the loop goes on
ReadMessage ==
    /\ sess_pc = "reading"
    /\ read_message(sess_stream).result.kind = "Some"
    /\ read_message(sess_stream).result.msg # Choke
    /\ sess_conn' = Handled(sess_conn, read_message(sess_stream).result.msg)
    /\ sess_stream' = read_message(sess_stream).rest
    /\ sess_handled' = Append(sess_handled, read_message(sess_stream).result.msg)
    /\ UNCHANGED << sess_pc, SessionOthers >>

NextSession == ReadNone \/ ReadErr \/ ReadChoke \/ ReadMessage

SpecSession == InitSession /\ [][NextSession]_vars

\* the frames sent are keep-alives and messages only
WellFormedStream == \A j \in 1..Len(sess_sent) : sess_sent[j].type # "Raw"

\* the messages among the frames sent, in wire order
MessagesSent == SelectSeq(sess_sent, LAMBDA f : f.type # "KeepAlive")

\* C17 (as claimed): a keep-alive does not end the message loop; when the
\* loop ends without an error, every message the peer sent, before or after
\* a keep-alive, has been handled in wire order.
C17_KeepAlivePermitted ==
    (sess_pc = "returned_ok" /\ WellFormedStream) => sess_handled = MessagesSent

\* the step handles a Bitfield that is not the first message of the session
LateBitfield ==
    /\ Len(sess_handled) >= 1
    /\ Len(sess_handled') = Len(sess_handled) + 1
    /\ sess_handled'[Len(sess_handled')].type = "Bitfield"

\* C18 (as claimed): a Bitfield received after another message ends the
\* session with a protocol violation and leaves the advertised set unchanged.
C18_BitfieldOnlyFirst ==
    [][ LateBitfield =>
          /\ sess_pc' = "returned_err"
          /\ sess_conn'.available_pieces = sess_conn.available_pieces ]_vars

\* the step handles a Bitfield and the session goes on
BitfieldHandled ==
    /\ Len(sess_handled') = Len(sess_handled) + 1
    /\ sess_handled'[Len(sess_handled')].type = "Bitfield"
    /\ sess_pc' = "reading"

\* the pieces a bitfield advertises: piece p is bit p % 8 of byte p \div 8,
\* the most significant bit being bit 0
AdvertisedBy(bytes) ==
    { p \in 0..(8 * Len(bytes) - 1) :
        (bytes[(p \div 8) + 1] \div (2 ^ (7 - (p % 8)))) % 2 = 1 }

\* C19 (as claimed): after Bitfield(bytes) is handled the advertised set is
\* exactly the set of bits of bytes, most significant bit first, whatever it
\* held before.
C19_BitfieldOverwrites ==
    [][ BitfieldHandled =>
          sess_conn'.available_pieces =
              AdvertisedBy(sess_handled'[Len(sess_handled')].bitfield) ]_vars

\* C20 (as claimed): the advertised set holds indices of real pieces only.
C20_AdvertisedWithinPieceCount ==
    sess_pc # "unused" =>
        \A i \in sess_conn.available_pieces : 0 <= i /\ i < pieces_count(torrent)

\* the step handles a Choke
ChokeHandled ==
    /\ Len(sess_handled') = Len(sess_handled) + 1
    /\ sess_handled'[Len(sess_handled')] = Choke

\* C21 (as claimed): a Choke does not end the session: the session marks
\* itself choked and keeps reading, so that a later Unchoke is handled.
C21_SurvivesChoke ==
    [][ ChokeHandled => (sess_pc' = "reading" /\ sess_conn'.choked) ]_vars

----------------------------------------------------------------------------
(* Further claims about the download loop.                                 *)

\* the peers a session has ended on with a malformed handshake
\* (ParserError) or a protocol violation (ProtocolError)
FailedPeers ==
    { tasks[u].peer : u \in { v \in 1..Len(tasks) :
                                tasks[v].result \in { "ParserError", "ProtocolError" } } }

\* task t leaves select_peer with its peer
Selects(t) ==
    /\ t \in 1..Len(tasks)
    /\ tasks[t].pc = "select_peer_locked"
    /\ tasks'[t].pc = "connect"

\* C22 (as claimed): a peer whose session ended with a malformed handshake or
\* a protocol violation is never selected for a new session again.
C22_FailedPeerNotSelectedAgain ==
    [][ \A t \in 1..Len(tasks) : Selects(t) => tasks'[t].peer \notin FailedPeers ]_vars

\* the tasks whose select_peer call has returned
Selected == { t \in 1..Len(tasks) : tasks[t].pc \notin { "select_peer", "select_peer_locked" } }

\* the tasks that hold the index lock
IndexLockHolders == { t \in 1..Len(tasks) : tasks[t].pc = "select_peer_locked" }

\* C23: peers are picked round-robin under every interleaving: the shared
\* index stays in 0..n-1 and counts the calls made so far modulo n, at most
\* one call at a time is between reading and advancing the index, and the
\* i-th call to take the lock (counting from 0) returns roster entry i mod n.
C23_RoundRobin ==
    /\ [](/\ peer_idx \in 0..(Len(peers) - 1)
          /\ peer_idx = Cardinality(Selected) % Len(peers)
          /\ Cardinality(IndexLockHolders) <= 1
          /\ \A t \in IndexLockHolders : idx_lock = t)
    /\ [][ \A t \in 1..Len(tasks) :
             Selects(t) =>
                 tasks'[t].peer = peers[(Cardinality(Selected) % Len(peers)) + 1] ]_vars

\* three sessions have picked from a roster of two peers: the second task
\* spawned picked first, and the third call wrapped around to the first peer
C23_Witness ==
    /\ Len(peers) = 2
    /\ Len(tasks) = 3
    /\ Selected = 1..3
    /\ tasks[2].peer = peers[1]
    /\ tasks[1].peer = peers[2]
    /\ tasks[3].peer = peers[1]

\* the steps of a session that perform or wait on network I/O
NetworkIO == { "connect", "write_handshake", "read_handshake", "send_interested" }

\* C26: no task holds a shared mutex while it performs or waits on network
\* I/O or waits for a permit: the piece-queue mutex is held only by main
\* inside get_batch, the peer-index mutex only by the task inside select_peer.
C26_NoLockAcrossIO ==
    /\ pieces_lock # 0 => main_pc = "get_batch_locked"
    /\ idx_lock # 0 =>
          /\ idx_lock \in 1..Len(tasks)
          /\ tasks[idx_lock].pc = "select_peer_locked"
    /\ main_pc \in { "acquire", "wait" } => pieces_lock = 0
    /\ \A t \in 1..Len(tasks) : tasks[t].pc \in NetworkIO => idx_lock # t

\* main is inside get_batch with the queue locked and one task is inside
\* select_peer with the index locked, while another task waits for the
\* peer's handshake
C26_Witness ==
    /\ pieces_lock # 0
    /\ idx_lock # 0
    /\ \E t \in 1..Len(tasks) : tasks[t].pc = "read_handshake"

\* the batches of the tasks spawned so far, one after the other in spawn order
RECURSIVE SpawnedPieces(_)
SpawnedPieces(n) ==
    IF n = 0 THEN << >> ELSE SpawnedPieces(n - 1) \o tasks[n].batch

\* every piece: those handed to tasks, in spawn order, the batch main holds,
\* and the queue
HandoutOrder == SpawnedPieces(Len(tasks)) \o batch \o pieces

\* C28: the batches of get_batch partition the piece list in increasing
\* index order: each piece is in exactly one batch, batches are non-empty
\* and hold at most BATCH_SIZE pieces, only the last holds fewer, and the
\* loop stops spawning exactly when the queue is empty.
C28_BatchesPartition ==
    /\ Len(HandoutOrder) = pieces_count(torrent)
    /\ \A k \in 1..Len(HandoutOrder) : HandoutOrder[k].index = k - 1
    /\ \A t \in 1..Len(tasks) :
          /\ Len(tasks[t].batch) \in 1..BATCH_SIZE
          /\ Len(tasks[t].batch) < BATCH_SIZE =>
                (t = Len(tasks) /\ batch = << >> /\ pieces = << >>)
    /\ Len(batch) <= BATCH_SIZE
    /\ (batch # << >> /\ Len(batch) < BATCH_SIZE) => pieces = << >>
    /\ main_pc \in { "acquire", "spawn" } => batch # << >>
    /\ main_pc \in { "wait", "done" } => (batch = << >> /\ pieces = << >>)

\* the loop has returned after handing out several batches, the last of them
\* shorter than BATCH_SIZE
C28_Witness ==
    /\ main_pc = "done"
    /\ Len(tasks) >= 2
    /\ Len(tasks[Len(tasks)].batch) < BATCH_SIZE
    /\ Len(tasks[1].batch) = BATCH_SIZE

\* a well-formed handshake for the torrent of the loop
GoodHandshake(buf) ==
    /\ Len(buf) = 68
    /\ buf[1] = 19
    /\ SubSeq(buf, 2, 20) = PROTOCOL_STR
    /\ SubSeq(buf, 29, 48) = LoopInfoHash

\* C29: a session sends Interested only after its own handshake and after a
\* well-formed handshake with the torrent's info-hash has arrived; a session
\* that ends with an error (connect failed, handshake malformed, info-hash
\* differs) has sent nothing after its handshake.
C29_InterestedOnlyAfterHandshake ==
    \A t \in 1..Len(tasks) :
        /\ tasks[t].sent \in { << >>, << "handshake" >>, << "handshake", "interested" >> }
        /\ "interested" \in Range(tasks[t].sent) =>
              /\ tasks[t].received # << >>
              /\ GoodHandshake(HandshakeReply(tasks[t].received[1]))
        /\ (tasks[t].received # << >> /\ ~GoodHandshake(HandshakeReply(tasks[t].received[1]))) =>
              /\ tasks[t].result \in { "PeerError", "ParserError", "ProtocolError" }
              /\ tasks[t].sent = << "handshake" >>
        /\ tasks[t].result \in { "PeerError", "ParserError", "ProtocolError" } =>
              "interested" \notin Range(tasks[t].sent)
        /\ tasks[t].received # << >> => tasks[t].sent # << >>

\* one session has sent Interested after a good handshake, another was
\* answered for a different torrent and ended with ProtocolError
C29_Witness ==
    /\ \E t \in 1..Len(tasks) : tasks[t].sent = << "handshake", "interested" >>
    /\ \E t \in 1..Len(tasks) :
          /\ tasks[t].received = << "other_info_hash" >>
          /\ tasks[t].result = "ProtocolError"
          /\ tasks[t].sent = << "handshake" >>

----------------------------------------------------------------------------
(* tracker.rs: Tracker::announce and AnnounceResponse::peers.              *)
(*                                                                         *)
(* A bencoded value is a record tagged like serde_bencode's Value; a       *)
(* dictionary is a function from its keys.  The text of an `ip` string is  *)
(* the sequence of the decimal numbers between its dots.                   *)

\* the longest compact peer string, in bytes
MaxCompactLen == 13
\* the most entries of a peer list in the dictionary format
MaxPeerEntries == 2

BBytes(data) == [ b |-> "Bytes", data |-> data ]
BInt(n) == [ b |-> "Int", n |-> n ]
BList(list) == [ b |-> "List", list |-> list ]
BDict(dict) == [ b |-> "Dict", dict |-> dict ]

\* a dictionary with the entries of a set of << key, value >> pairs
DictOf(entries) ==
    [ k \in { e[1] : e \in entries } |-> (CHOOSE e \in entries : e[1] = k)[2] ]

\* struct Peer
Peer(ip, port) == [ ip |-> ip, port |-> port ]

\* a from_be_bytes that takes the bytes in the opposite order
PortFromLeBytes(hi, lo) == 256 * lo + hi

\* u16::from_be_bytes([chunk[4], chunk[5]])
PortFromBeBytes(hi, lo) == 256 * hi + lo

\* the compact branch of peers (tracker.rs:53-62): data.chunks(6), a chunk
\* shorter than 6 is skipped
RECURSIVE CompactPeers(_)
CompactPeers(data) ==
    IF Len(data) < 6 THEN << >>
    ELSE << Peer(SubSeq(data, 1, 4), PortFromBeBytes(data[5], data[6])) >>
           \o CompactPeers(SubSeq(data, 7, Len(data)))

\* `*n as u16` of an i64
AsU16(n) == n % 65536

\* s.parse::<Ipv4Addr>() of the text of an address: four numbers of 0..255
ParseIpv4(text) ==
    IF Len(text) = 4 /\ \A j \in 1..4 : text[j] \in 0..255 THEN << text >> ELSE << >>

\* tracker.rs:98-104: the ip of a peer entry, an Option
EntryIp(dict) ==
    IF "ip" \notin DOMAIN dict THEN << >>
    ELSE IF dict["ip"].b # "Bytes" THEN << >>
    ELSE ParseIpv4(dict["ip"].data)

\* tracker.rs:107-111: the port of a peer entry, an Option
EntryPort(dict) ==
    IF "port" \notin DOMAIN dict THEN << >>
    ELSE IF dict["port"].b # "Int" THEN << >>
    ELSE << AsU16(dict["port"].n) >>

\* the dictionary branch of peers (tracker.rs:94-122)
RECURSIVE ListPeers(_)
ListPeers(list) ==
    IF list = << >> THEN << >>
    ELSE LET item == Head(list)
             found == IF item.b = "Dict"
                          /\ EntryIp(item.dict) # << >> /\ EntryPort(item.dict) # << >>
                      THEN << Peer(EntryIp(item.dict)[1], EntryPort(item.dict)[1]) >>
                      ELSE << >>
         IN  found \o ListPeers(Tail(list))

\* AnnounceResponse::peers
ResponsePeers(peers_data) ==
    CASE peers_data.b = "Bytes" -> CompactPeers(peers_data.data)
      [] peers_data.b = "List" -> ListPeers(peers_data.list)
      [] OTHER -> << >>

\* de::from_bytes::<AnnounceResponse> (tracker.rs:15-20, 176-177): `peers`
\* is required and may be any value, `interval` is an optional integer, every
\* other key is skipped
Deserializable(dict) ==
    /\ "peers" \in DOMAIN dict
    /\ "interval" \in DOMAIN dict => dict["interval"].b = "Int"

AnnounceErr == [ kind |-> "Err", error |-> "TrackerError" ]
AnnounceOk(ps) == [ kind |-> "Ok", peers |-> ps ]

\* Tracker::announce, given what its request brings back
announce(response) ==
    IF response.kind # "body" THEN AnnounceErr
    ELSE IF ~Deserializable(response.dict) THEN AnnounceErr
    ELSE AnnounceOk(ResponsePeers(response.dict["peers"]))

\* inputs of the announce

\* the spec's example: 192.168.1.1:6881
CompactExample == << 192, 168, 1, 1, 26, 225 >>

\* compact peer strings whose bytes differ by position
CompactBytes(seed, n) == [ j \in 1..n |-> (seed + 41 * j) % 256 ]

CompactDatas ==
    { CompactExample } \cup { CompactBytes(seed, n) : seed \in { 0, 97 }, n \in 0..MaxCompactLen }

\* the `ip` and `port` values of peer entries: absent, of the wrong type,
\* an address that does not parse, ports inside and outside 0..65535
EntryIps == { BBytes(<< 192, 168, 1, 1 >>), BBytes(<< 256, 1, 1, 1 >>) }
EntryPorts ==
    { BInt(6881), BInt(0), BInt(65535), BInt(65536 + 6881), BInt(-1), BBytes(<< 54 >>) }

PeerItems ==
    { BInt(7) }
      \cup { BDict(DictOf({ << "ip", ip >> })) : ip \in EntryIps }
      \cup { BDict(DictOf({ << "port", port >> })) : port \in EntryPorts }
      \cup { BDict(DictOf({ << "ip", ip >>, << "port", port >> })) :
               ip \in EntryIps, port \in EntryPorts }

RECURSIVE PeerLists(_)
PeerLists(n) ==
    IF n = 0 THEN { << >> }
    ELSE PeerLists(n - 1)
           \cup { Append(q, item) : q \in { r \in PeerLists(n - 1) : Len(r) = n - 1 },
                                    item \in PeerItems }

PeersDatas ==
    { BBytes(d) : d \in CompactDatas } \cup { BList(l) : l \in PeerLists(MaxPeerEntries) }
      \cup { BInt(0) }

\* the other entries of a response: none, an interval, a failure reason, an
\* interval of the wrong type
ResponseExtras ==
    { {},
      { << "interval", BInt(1800) >> },
      { << "failure reason", BBytes(<< 110, 111 >>) >> },
      { << "failure reason", BBytes(<< 110, 111 >>) >>, << "interval", BInt(1800) >> },
      { << "interval", BBytes(<< 49 >>) >> } }

\* what the request brings back: the announce URL does not parse, the HTTP
\* request fails, or a bencoded dictionary arrives
Responses ==
    { [ kind |-> "url_error" ], [ kind |-> "http_error" ] }
      \cup { [ kind |-> "body", dict |-> DictOf(extra) ] : extra \in ResponseExtras }
      \cup { [ kind |-> "body", dict |-> DictOf(extra \cup { << "peers", pd >> }) ] :
               extra \in ResponseExtras, pd \in PeersDatas }

InitTracker ==
    /\ torrent = LoopTorrent(NumPieces)
    /\ block_size = MaxBlockSize
    /\ pm_state = "unbuilt"
    /\ manager = NoManager
    /\ corrupt = {}
    /\ calls = 0
    /\ hit_complete = FALSE
    /\ LoopIdle
    /\ file_pc = "unused"
    /\ source_info = << >>
    /\ info_raw_bytes = << >>
    /\ wire_pc = "unused"
    /\ wire_in = [ kind |-> "none" ]
    /\ wire_buf = << >>
    /\ wire_out = [ kind |-> "none" ]
    /\ sess_pc = "unused"
    /\ sess_conn = [ choked |-> TRUE, available_pieces |-> {} ]
    /\ sess_sent = << >>
    /\ sess_stream = << >>
    /\ sess_handled = << >>
    /\ trk_pc = "announce"
    /\ trk_response \in Responses
    /\ trk_result = [ kind |-> "none" ]

\* Tracker::announce
Announce ==
    /\ trk_pc = "announce"
    /\ trk_result' = announce(trk_response)
    /\ trk_pc' = "done"
    /\ UNCHANGED << torrent, block_size, managerVars, loopVars, fromFileVars, wireVars,
                    sessVars, trk_response >>

SpecTracker == InitTracker /\ [][Announce]_vars

\* the announce has returned for a response whose `peers` is a byte string
CompactAnnounced ==
    /\ trk_pc = "done"
    /\ trk_response.kind = "body"
    /\ Deserializable(trk_response.dict)
    /\ trk_response.dict["peers"].b = "Bytes"

\* C24: for a compact peers string whose length is a multiple of 6 the
\* announce returns length/6 peers in order, peer k with the address
\* bytes[6k..6k+4] and the port 256*bytes[6k+4] + bytes[6k+5].
C24_CompactPeers ==
    (CompactAnnounced /\ Len(trk_response.dict["peers"].data) % 6 = 0) =>
        LET data == trk_response.dict["peers"].data
        IN  /\ trk_result.kind = "Ok"
            /\ Len(trk_result.peers) = Len(data) \div 6
            /\ \A k \in 0..(Len(trk_result.peers) - 1) :
                  /\ trk_result.peers[k + 1].ip
                        = << data[6 * k + 1], data[6 * k + 2], data[6 * k + 3], data[6 * k + 4] >>
                  /\ trk_result.peers[k + 1].port = 256 * data[6 * k + 5] + data[6 * k + 6]

\* C0 A8 01 01 1A E1 gave the single peer 192.168.1.1:6881
C24_Witness ==
    /\ CompactAnnounced
    /\ trk_response.dict["peers"].data = << 192, 168, 1, 1, 26, 225 >>
    /\ trk_result = AnnounceOk(<< Peer(<< 192, 168, 1, 1 >>, 6881) >>)

\* C25 (as claimed): announce returns an error whenever the response carries
\* a `failure reason`, also when it carries `peers` as well.
C25_FailureReasonIsError ==
    (trk_pc = "done" /\ trk_response.kind = "body"
        /\ "failure reason" \in DOMAIN trk_response.dict) =>
        trk_result.kind = "Err"

\* the ports of the entries of a list that have an address that parses and
\* an integer port within 0..65535, in order
RECURSIVE PortsInRange(_)
PortsInRange(list) ==
    IF list = << >> THEN << >>
    ELSE LET item == Head(list)
             ok == /\ item.b = "Dict"
                   /\ EntryIp(item.dict) # << >>
                   /\ "port" \in DOMAIN item.dict
                   /\ item.dict["port"].b = "Int"
                   /\ item.dict["port"].n \in 0..65535
         IN  (IF ok THEN << item.dict["port"].n >> ELSE << >>) \o PortsInRange(Tail(list))

\* C27 (as claimed): in the dictionary format an entry whose port is outside
\* 0..65535 is not added, and every peer returned has the port the tracker
\* sent.
C27_PortRangeChecked ==
    (trk_pc = "done" /\ trk_response.kind = "body" /\ Deserializable(trk_response.dict)
        /\ trk_response.dict["peers"].b = "List") =>
        /\ trk_result.kind = "Ok"
        /\ [ k \in 1..Len(trk_result.peers) |-> trk_result.peers[k].port ]
              = PortsInRange(trk_response.dict["peers"].list)

====
